---- MODULE Spec2Model ----
(***************************************************************************)
(* A model of the OMSC wiki scraper (src/index.ts, lines 1-397).           *)
(*                                                                         *)
(*   SpecFormat : formatMessage, one step per forEach callback             *)
(*   SpecRun    : the control flow of one run of processResults: the four   *)
(*                concurrent fetches, the table downloads, the two          *)
(*                aggregation passes and the four file writes               *)
(*   SpecRow    : the row filter of the country pass on one history row     *)
(*   SpecCountry: the country pass over several short tables, then the      *)
(*                sort of the two country maps                              *)
(*   SpecStats  : the country pass on one long table                        *)
(*   SpecMembers: the member pass on one long table                         *)
(*   SpecParticipation: processLastParticipation and its report             *)
(*   SpecEdition: extractEditionNumber on bounded labels, within            *)
(*                processLastParticipation                                  *)
(*   SpecReport : formatParticipationData on bounded maps                   *)
(*   SpecRoster : extractData and the two rosters built from it             *)
(*   SpecSort   : the sort of the three maps                                *)
(*   SpecAttribution: the country pass followed by                          *)
(*                processLastParticipation on one list of tables            *)
(*                                                                         *)
(* JavaScript values are modelled as follows.  A string that the code      *)
(* inspects character by character is a sequence of one-character strings; *)
(* a string that the code only compares or tests for truthiness (a name)   *)
(* is a TLA+ string, "" being the empty, falsy one.  A map is the sequence *)
(* of its entries in insertion order, keys pairwise distinct.  A map value *)
(* is the array the code stores, <<points>> or <<points, flagName>>.  A    *)
(* value that may be undefined is <<>> (undefined) or <<v>>.               *)
(***************************************************************************)
EXTENDS Integers, Sequences, FiniteSets, TLC

VARIABLES
    pc,                \* which function is running, and where
    map,               \* formatMessage: the map parameter
    isMembersArray,    \* formatMessage: the isMembersArray parameter
    pos,               \* formatMessage: entries the forEach has visited
    rank,              \* formatMessage: let rank
    previousPoints,    \* formatMessage: let previousPoints
    tieCount,          \* formatMessage: let tieCount
    formattedMessage,  \* formatMessage: the lines appended so far
    urlState,          \* fetchContent: where the callback of each URL is
    promiseAll,        \* fetchContent: the state of the Promise.all promise
    texts,             \* fetchContent: the result array Promise.all fills, by index
    settled,           \* history: the callbacks in the order they fulfilled
    webSources,        \* processResults: const webSources
    converted,         \* processResults: tabletojson.convertUrl calls completed
    log,               \* console.error and console.log calls so far
    files,             \* the files written under ./dist
    argvEdition,       \* argv.edition: <<>> when the flag is absent, else <<n>>
    countries,         \* processResults: const countries, <<name, flagName>> pairs
    members,           \* processResults: const members, <<name, flagName>> pairs
    array,             \* the table the current forEach callback was given
    index,             \* tables the current forEach has visited
    totalStats,        \* processResults: let totalStats
    averageStats,      \* processResults: let averageStats (values in tenths)
    averagePlaces,     \* processResults: let averagePlaces (values in tenths)
    attributed,        \* history: per name, the points of its tables so far
    column,            \* a history row handed to a row filter
    included,          \* whether the row filter kept the row, and with what
    tablesCountries,   \* processLastParticipation: the tablesCountries parameter
    edition,           \* processLastParticipation: let edition
    lastParticipation, \* processLastParticipation: const lastParticipation
    visited,           \* processLastParticipation: countries the forEach has visited
    sortedEntries,     \* formatParticipationData: const sortedEntries
    extracted,         \* extractData: per web source, the pairs pushed by each()
    uniqueExtracted    \* extractData: per web source, the roster it returns

fmtVars == <<map, isMembersArray, pos, rank, previousPoints, tieCount, formattedMessage>>

runVars == <<urlState, promiseAll, texts, settled, webSources, converted, log, files>>

aggVars == <<argvEdition, countries, members, array, index, totalStats, averageStats,
             averagePlaces, attributed>>

rowVars == <<column, included>>

partVars == <<tablesCountries, edition, lastParticipation, visited, sortedEntries>>

rosterVars == <<extracted, uniqueExtracted>>

vars == <<pc, fmtVars, runVars, aggVars, rowVars, partVars, rosterVars>>

(***************************************************************************)
(* Bounds of the model.                                                    *)
(***************************************************************************)
MaxEntities == 4

(***************************************************************************)
(* Generic helpers for sequences and maps.                                 *)
(***************************************************************************)
Range(s) == { s[i] : i \in 1..Len(s) }

Injective(s) == \A i, j \in 1..Len(s) : s[i] = s[j] => i = j

SeqsUpTo(S, n) == UNION { [1..k -> S] : k \in 0..n }

\* Array.prototype.indexOf, 1-based; 0 when absent (JavaScript's -1).
IndexOf(s, x) ==
    IF \E i \in 1..Len(s) : s[i] = x
    THEN CHOOSE i \in 1..Len(s) : s[i] = x /\ \A j \in 1..(i - 1) : s[j] # x
    ELSE 0

\* Array.from(map.keys())
Keys(m) == [i \in 1..Len(m) |-> m[i].name]

\* map.get(key): <<>> is undefined, <<value>> otherwise.
MapGet(m, key) ==
    IF IndexOf(Keys(m), key) = 0 THEN <<>> ELSE <<m[IndexOf(Keys(m), key)].value>>

\* JavaScript truthiness of a string | undefined.
Truthy(opt) == opt # <<>> /\ opt[1] # ""

(***************************************************************************)
(* formatMessage (src/index.ts:133-178).                                   *)
(***************************************************************************)

\* Lines 143-145: the value of the entry after `name`, or undefined.
NextPoints(m, name) ==
    LET keys == Keys(m)
        nextIndex == IndexOf(keys, name) + 1
        nextCountry == IF nextIndex <= Len(keys) THEN <<keys[nextIndex]>> ELSE <<>>
    IN  IF Truthy(nextCountry) THEN MapGet(m, nextCountry[1]) ELSE <<>>

\* nextPoints?.[0] === points
NextEqual(m, name, points) ==
    LET nextPoints == NextPoints(m, name)
    IN  nextPoints # <<>> /\ nextPoints[1][1] = points

\* Line 146 without the look-ahead at the successor.
PointsEqualNoLookahead(m, name, points, prev) == prev = points

\* Line 146.
PointsEqual(m, name, points, prev) ==
    NextEqual(m, name, points) \/ prev = points

\* Line 147.
IsPodium(r, pointsEqual) == r <= 3 /\ ~pointsEqual

\* Lines 149-157: the rank prefix of a line.
Prefix(r, tc, pointsEqual) ==
    IF r = 1 /\ ~pointsEqual THEN [medal |-> "gold", label |-> 0, escaped |-> FALSE]
    ELSE IF r = 2 /\ ~pointsEqual THEN [medal |-> "silver", label |-> 0, escaped |-> FALSE]
    ELSE IF r = 3 /\ ~pointsEqual THEN [medal |-> "bronze", label |-> 0, escaped |-> FALSE]
    ELSE IF r > 3 \/ pointsEqual
         THEN IF pointsEqual
              THEN [medal |-> "none", label |-> r - tc, escaped |-> TRUE]
              ELSE [medal |-> "none", label |-> r, escaped |-> FALSE]
         ELSE [medal |-> "none", label |-> 0, escaped |-> FALSE]

\* Lines 159-169: one line of the message.
Line(r, tc, name, value, isMembers, pointsEqual) ==
    [ rank      |-> r,
      prefix    |-> Prefix(r, tc, pointsEqual),
      tieMarker |-> pointsEqual,
      emphasis  |-> IsPodium(r, pointsEqual),
      flagKey   |-> IF isMembers THEN (IF Len(value) >= 2 THEN value[2] ELSE "") ELSE name,
      name      |-> name,
      points    |-> value[1],
      suffix    |-> IF isMembers THEN "" ELSE "points" ]

\* Lines 171-172.
NextTieCount(tc, pointsEqual, nextEqual) ==
    IF nextEqual THEN tc + (IF pointsEqual THEN 1 ELSE 0) ELSE 0

\* Lines 139-175: the forEach callback on the entry at position pos + 1.
FormatEntity ==
    /\ pc = "formatMessage"
    /\ pos < Len(map)
    /\ LET name        == map[pos + 1].name
           value       == map[pos + 1].value
           points      == value[1]
           nextEqual   == NextEqual(map, name, points)
           pointsEqual == PointsEqual(map, name, points, previousPoints)
       IN  /\ formattedMessage' = Append(formattedMessage,
                  Line(rank, tieCount, name, value, isMembersArray, pointsEqual))
           /\ tieCount' = NextTieCount(tieCount, pointsEqual, nextEqual)
           /\ previousPoints' = points
           /\ rank' = rank + 1
    /\ pos' = pos + 1
    /\ UNCHANGED <<pc, map, isMembersArray, runVars, aggVars, rowVars, partVars, rosterVars>>

\* Line 177: return formattedMessage.
FormatReturn ==
    /\ pc = "formatMessage"
    /\ pos = Len(map)
    /\ pc' = "formatted"
    /\ UNCHANGED <<fmtVars, runVars, aggVars, rowVars, partVars, rosterVars>>

(***************************************************************************)
(* The maps formatMessage is handed.  Keys are distinct names; a name may  *)
(* be the empty string (extractData keeps whatever is left of the page     *)
(* text after trimming, line 72).  Scores are in the order processResults  *)
(* sorted them (lines 384-386).  A total or an average of points is never  *)
(* 0 (line 337, and every included row has at least one point); an average *)
(* placement can be 0, since parseInt accepts a signed GF Place: twenty    *)
(* "1" and one "-19" sum to 1 over 21 rows, which line 366 rounds to 0.    *)
(***************************************************************************)
Names == {"", "A", "B", "C", "D"}

CountryScores == {60, 80, 100}

MemberScores == {0, 2, 5}

FlagNames == {"Italy"}

NonIncreasing(m) == \A i \in 1..(Len(m) - 1) : m[i].value[1] >= m[i + 1].value[1]

NonDecreasing(m) == \A i \in 1..(Len(m) - 1) : m[i].value[1] <= m[i + 1].value[1]

CountryEntries == { [name |-> n, value |-> <<s>>] : n \in Names, s \in CountryScores }

MemberEntries ==
    { [name |-> n, value |-> <<s, f>>] : n \in Names, s \in MemberScores, f \in FlagNames }

CountryMaps ==
    { m \in SeqsUpTo(CountryEntries, MaxEntities) : Injective(Keys(m)) /\ NonIncreasing(m) }

MemberMaps ==
    { m \in SeqsUpTo(MemberEntries, MaxEntities) : Injective(Keys(m)) /\ NonDecreasing(m) }

\* The variables of processResults while a function is studied on its own.
RunIdle ==
    /\ urlState = <<>>
    /\ promiseAll = "pending"
    /\ texts = <<>>
    /\ settled = <<>>
    /\ webSources = <<>>
    /\ converted = 0
    /\ log = <<>>
    /\ files = {}

\* The variables of the aggregation passes while they are not studied.
AggIdle ==
    /\ argvEdition = <<>>
    /\ countries = <<>>
    /\ members = <<>>
    /\ array = <<>>
    /\ index = 0
    /\ totalStats = <<>>
    /\ averageStats = <<>>
    /\ averagePlaces = <<>>
    /\ attributed = <<>>

\* The variables of a row filter studied on its own, while unused.
RowIdle ==
    /\ column = <<>>
    /\ included = <<>>

\* The variables of processLastParticipation and extractData while they are
\* not studied.
PartIdle ==
    /\ tablesCountries = <<>>
    /\ edition = 0
    /\ lastParticipation = <<>>
    /\ visited = 0
    /\ sortedEntries = <<>>
    /\ extracted = <<>>
    /\ uniqueExtracted = <<>>

\* Lines 134-137: the state on entry to formatMessage.
InitFormat ==
    /\ pc = "formatMessage"
    /\ PartIdle
    /\ RunIdle
    /\ AggIdle
    /\ RowIdle
    /\ \/ isMembersArray = FALSE /\ map \in CountryMaps
       \/ isMembersArray = TRUE /\ map \in MemberMaps
    /\ pos = 0
    /\ rank = 1
    /\ previousPoints = 0
    /\ tieCount = 0
    /\ formattedMessage = <<>>

NextFormat == FormatEntity \/ FormatReturn

SpecFormat == InitFormat /\ [][NextFormat]_vars

(***************************************************************************)
(* Properties of formatMessage.                                            *)
(***************************************************************************)
Score(m, i) == m[i].value[1]

\* The position at which the tie-block of entry i (the maximal run of
\* consecutive entries with entry i's score) starts.
BlockStart(m, i) ==
    CHOOSE j \in 1..i :
        /\ \A k \in j..i : Score(m, k) = Score(m, i)
        /\ (j = 1 \/ Score(m, j - 1) # Score(m, i))

\* Entry i has a predecessor or a successor with its score.
HasEqualNeighbour(m, i) ==
    \/ (i > 1 /\ Score(m, i - 1) = Score(m, i))
    \/ (i < Len(m) /\ Score(m, i + 1) = Score(m, i))

AllEqual(m) == \A i, j \in 1..Len(m) : Score(m, i) = Score(m, j)

MedalOfRank(r) == IF r = 1 THEN "gold" ELSE IF r = 2 THEN "silver" ELSE "bronze"

Lines == 1..Len(formattedMessage)

\* C1: the entity at position i is processed with rank counter i, and a line
\* formatted as tied shows, as its numeric label, the position at which its
\* tie-block starts.
C1_RankAndTieLabel ==
    \A i \in Lines :
        /\ formattedMessage[i].rank = i
        /\ formattedMessage[i].tieMarker =>
               formattedMessage[i].prefix.label = BlockStart(map, i)

\* C2: a line carries a medal (the one of its rank counter) and the emphasis
\* wrapper if and only if its rank counter is at most 3 and its entity has no
\* neighbour with the same score; no rank counter above 3 carries a medal.
C2_MedalIffUntiedTopThree ==
    \A i \in Lines :
        LET l == formattedMessage[i]
            podium == l.rank <= 3 /\ ~HasEqualNeighbour(map, i)
        IN  /\ (l.prefix.medal # "none") <=> podium
            /\ l.emphasis <=> podium
            /\ l.prefix.medal # "none" => l.prefix.medal = MedalOfRank(l.rank)
            /\ l.rank > 3 => l.prefix.medal = "none"

\* C3: every entity of a tie-block of size at least 2 is formatted as tied:
\* tie marker, numeric label with an escaped dot, no medal.
C3_TieBlockAllTied ==
    \A i \in Lines :
        HasEqualNeighbour(map, i) =>
            /\ formattedMessage[i].tieMarker
            /\ formattedMessage[i].prefix.escaped
            /\ formattedMessage[i].prefix.label >= 1
            /\ formattedMessage[i].prefix.medal = "none"

\* C4: an entity without a neighbour of equal score is never formatted as
\* tied, whatever its score.
C4_NoNeighbourNeverTied ==
    \A i \in Lines :
        ~HasEqualNeighbour(map, i) =>
            /\ ~formattedMessage[i].tieMarker
            /\ ~formattedMessage[i].prefix.escaped

\* C5 as stated: when all k >= 2 entities have the same score, the first is
\* shown with rank 1 and only the entities from the second onward carry the
\* tie marker.
C5_FirstOfRunUnmarked ==
    (Len(map) >= 2 /\ AllEqual(map)) =>
        \A i \in Lines :
            /\ formattedMessage[i].rank = i
            /\ formattedMessage[i].tieMarker <=> i >= 2

\* C5 amended: when all k >= 2 entities have the same score, every entity
\* from the second onward carries the tie marker, and so does the first, with
\* the numeric label 1, unless its successor's name is the empty string and
\* the shared score is not 0, in which case it receives the gold medal.
C5_WholeRunMarked ==
    (Len(map) >= 2 /\ AllEqual(map)) =>
        \A i \in Lines :
            LET l == formattedMessage[i]
            IN  /\ l.rank = i
                /\ i >= 2 => l.tieMarker
                /\ i = 1 =>
                       IF map[2].name # "" \/ Score(map, 1) = 0
                       THEN l.tieMarker /\ l.prefix.label = 1 /\ l.prefix.medal = "none"
                       ELSE ~l.tieMarker /\ l.prefix.medal = "gold"

\* C5 witness: a run of three equal scores has been formatted, and its first
\* line carries the tie marker.
C5_Witness ==
    /\ pc = "formatted"
    /\ Len(map) = 3
    /\ AllEqual(map)
    /\ ~isMembersArray
    /\ formattedMessage[1].tieMarker
    /\ formattedMessage[3].tieMarker

(***************************************************************************)
(* extractData (src/index.ts:54-94) and the rosters processResults builds  *)
(* from it (lines 291-294).  The markup of a page is modelled by the pairs *)
(* [entry, flagName] that the each() callback pushes for it, the entry     *)
(* already trimmed.                                                        *)
(***************************************************************************)

\* Line 78: self.findIndex, comparing both members of the pair.
FindIndex(self, value) ==
    CHOOSE i \in 1..Len(self) :
        /\ self[i][1] = value[1] /\ self[i][2] = value[2]
        /\ \A j \in 1..(i - 1) : ~(self[j][1] = value[1] /\ self[j][2] = value[2])

\* Lines 77-79: the duplicate filter.
RemoveDuplicates(self) ==
    LET kept == { i \in 1..Len(self) : i = FindIndex(self, self[i]) }
        RECURSIVE Pick(_)
        Pick(n) == IF n = 0 THEN <<>>
                   ELSE IF n \in kept THEN Append(Pick(n - 1), self[n]) ELSE Pick(n - 1)
    IN  Pick(Len(self))

\* Lines 83-84: toLowerCase, as the place of the name in string order.
LowerRank(name) == CASE name = "A" -> 1
                     [] name = "a" -> 1
                     [] name = "b" -> 2
                     [] name = "B" -> 2
                     [] name = "E-acute" -> 3
                     [] name = "M" -> 4
                     [] OTHER -> 5

\* Line 86: the name has a combining mark once normalised to NFD.
HasCombiningMark(name) == name = "E-acute"

\* Lines 82-90: the comparator, -1, 0 or 1.
CompareNames(a, b) ==
    IF HasCombiningMark(a[1]) \/ HasCombiningMark(b[1]) THEN 0
    ELSE IF LowerRank(a[1]) > LowerRank(b[1]) THEN 1
    ELSE IF LowerRank(a[1]) < LowerRank(b[1]) THEN -1
    ELSE 0

\* The comparator orders the elements of list consistently; otherwise the
\* order Array.prototype.sort leaves is implementation-defined.
ConsistentOn(list) ==
    \A a, b, c \in Range(list) :
        /\ (CompareNames(a, b) = 0 /\ CompareNames(b, c) = 0) => CompareNames(a, c) = 0
        /\ (CompareNames(a, b) < 0 /\ CompareNames(b, c) < 0) => CompareNames(a, c) < 0
        /\ (CompareNames(a, b) < 0 /\ CompareNames(b, c) = 0) => CompareNames(a, c) < 0
        /\ (CompareNames(a, b) = 0 /\ CompareNames(b, c) < 0) => CompareNames(a, c) < 0

\* One insertion of a stable sort by name.
NameInsert(sorted, e) ==
    LET p == Cardinality({ i \in 1..Len(sorted) : CompareNames(e, sorted[i]) >= 0 })
    IN  SubSeq(sorted, 1, p) \o <<e>> \o SubSeq(sorted, p + 1, Len(sorted))

RECURSIVE SortByName(_)
\* Lines 82-90 under a consistent comparator: the stable sort.
SortByName(list) ==
    IF list = <<>> THEN <<>>
    ELSE NameInsert(SortByName(SubSeq(list, 1, Len(list) - 1)), list[Len(list)])

\* The rearrangements of list.
Rearrangements(list) ==
    { [i \in 1..Len(list) |-> list[f[i]]] :
          f \in { g \in [1..Len(list) -> 1..Len(list)] : Injective(g) } }

\* Lines 82-90: what the sort may leave in uniqueExtracted.
SortOutcomes(list) ==
    IF ConsistentOn(list) THEN { SortByName(list) } ELSE Rearrangements(list)

(***************************************************************************)
(* One run of processResults (src/index.ts:282-397) with fetchContent      *)
(* (lines 34-47).  urls.map starts the four callbacks at once; each awaits *)
(* fetch, tests response.ok and awaits response.text().  Promise.all       *)
(* rejects with the first rejection and fulfils once every callback has,   *)
(* its result array being indexed like urls.                               *)
(***************************************************************************)

\* Lines 283-288, the pages in the order of the urls array.
Urls == <<"COUNTRIES_A", "COUNTRIES_B", "MEMBERS_A", "MEMBERS_B">>

Pages == 1..Len(Urls)

\* Lines 389-392, the output files in the order they are written.
OutputFiles ==
    << "all-time-results.txt", "average-scores-final.txt",
       "average-scores-members.txt", "last-countries-participations.txt" >>

\* The promise of Promise.all after callback i has rejected.
AllAfterReject == IF promiseAll = "pending" THEN "rejected" ELSE promiseAll

\* The promise of Promise.all after the callbacks have reached states st.
AllAfterFulfil(st) ==
    IF promiseAll = "pending" /\ \A i \in Pages : st[i] = "fulfilled"
    THEN "fulfilled"
    ELSE promiseAll

\* Promise.all storing each value in the order the callbacks fulfil.
CompletionIndex(i) == Len(settled) + 1

\* Lines 36-42: Promise.all stores the value of the i-th promise at index i.
ResultIndex(i) == i

\* Line 38: fetch(url) rejects (transport error).
FetchError(i) ==
    /\ urlState[i] = "fetching"
    /\ urlState' = [urlState EXCEPT ![i] = "rejected"]
    /\ promiseAll' = AllAfterReject
    /\ UNCHANGED <<pc, fmtVars, aggVars, rowVars, partVars, rosterVars, texts, webSources, converted, log, files, settled>>

\* Lines 38-40: the response arrives; a response that is not ok throws.
FetchResponse(i, ok) ==
    /\ urlState[i] = "fetching"
    /\ urlState' = [urlState EXCEPT ![i] = IF ok THEN "reading" ELSE "rejected"]
    /\ promiseAll' = IF ok THEN promiseAll ELSE AllAfterReject
    /\ UNCHANGED <<pc, fmtVars, aggVars, rowVars, partVars, rosterVars, texts, webSources, converted, log, files, settled>>

\* Line 40: response.text() resolves, and with it callback i.
ReadText(i) ==
    /\ urlState[i] = "reading"
    /\ urlState' = [urlState EXCEPT ![i] = "fulfilled"]
    /\ texts' = [texts EXCEPT ![ResultIndex(i)] = Urls[i]]
    /\ settled' = Append(settled, i)
    /\ promiseAll' = AllAfterFulfil(urlState')
    /\ UNCHANGED <<pc, fmtVars, aggVars, rowVars, partVars, rosterVars, webSources, converted,
                   log, files>>

\* Line 40: response.text() rejects (the body cannot be read).
ReadError(i) ==
    /\ urlState[i] = "reading"
    /\ urlState' = [urlState EXCEPT ![i] = "rejected"]
    /\ promiseAll' = AllAfterReject
    /\ UNCHANGED <<pc, fmtVars, aggVars, rowVars, partVars, rosterVars, texts, webSources, converted, log, files, settled>>

\* Lines 36-42 and 290: the await of Promise.all returns the result array.
FetchContentReturn ==
    /\ pc = "fetchContent"
    /\ promiseAll = "fulfilled"
    /\ webSources' = texts
    /\ pc' = "extractData"
    /\ UNCHANGED <<fmtVars, aggVars, rowVars, partVars, rosterVars, urlState, promiseAll, texts, converted, log, files, settled>>

\* Lines 43-46 with the catch block logging and then carrying on.
FetchContentCatchSwallow ==
    /\ pc = "fetchContent"
    /\ promiseAll = "rejected"
    /\ log' = Append(log, "Error fetching URLs:")
    /\ webSources' = texts
    /\ pc' = "extractData"
    /\ UNCHANGED <<fmtVars, aggVars, rowVars, partVars, rosterVars, urlState, promiseAll, texts, converted, files, settled>>

\* Lines 43-46: the catch block logs and rethrows.
FetchContentCatch ==
    /\ pc = "fetchContent"
    /\ promiseAll = "rejected"
    /\ log' = Append(log, "Error fetching URLs:")
    /\ pc' = "thrown"
    /\ UNCHANGED <<fmtVars, aggVars, rowVars, partVars, rosterVars, urlState, promiseAll, texts, webSources, converted, files, settled>>

\* The pairs that each() pushes for a web source: here every page lists one
\* entity, named after the page.
PagePairs(websource) == << <<websource, "Italy">> >>

\* Lines 291-294: extractData(webSources) and the two concatenated rosters.
ExtractData ==
    /\ pc = "extractData"
    /\ extracted' = [i \in Pages |-> PagePairs(webSources[i])]
    /\ \E countriesA \in SortOutcomes(RemoveDuplicates(extracted'[1])),
          countriesB \in SortOutcomes(RemoveDuplicates(extracted'[2])),
          membersA \in SortOutcomes(RemoveDuplicates(extracted'[3])),
          membersB \in SortOutcomes(RemoveDuplicates(extracted'[4])) :
           /\ uniqueExtracted' = <<countriesA, countriesB, membersA, membersB>>
           /\ countries' = countriesA \o countriesB
           /\ members' = membersA \o membersB
    /\ pc' = "convertUrl"
    /\ UNCHANGED <<fmtVars, runVars, rowVars, partVars, argvEdition, array, index,
                   totalStats, averageStats, averagePlaces, attributed>>

\* Lines 297-305: one awaited tabletojson.convertUrl; it downloads the page
\* again and may reject.
ConvertUrl(ok) ==
    /\ pc = "convertUrl"
    /\ converted < Len(Urls)
    /\ converted' = IF ok THEN converted + 1 ELSE converted
    /\ pc' = IF ~ok THEN "thrown"
             ELSE IF converted + 1 = Len(Urls) THEN "countryStats" ELSE "convertUrl"
    /\ UNCHANGED <<fmtVars, aggVars, rowVars, partVars, rosterVars, urlState, promiseAll, texts, webSources, log, files, settled>>

\* Lines 313-341: the country pass; column.Points.match throws a TypeError on
\* a table that has no Points column.
CountryStats(ok) ==
    /\ pc = "countryStats"
    /\ pc' = IF ok THEN "memberStats" ELSE "thrown"
    /\ UNCHANGED <<fmtVars, runVars, aggVars, rowVars, partVars, rosterVars>>

\* Lines 344-386: the member pass and the three sorts.
MemberStats ==
    /\ pc = "memberStats"
    /\ pc' = "write"
    /\ UNCHANGED <<fmtVars, runVars, aggVars, rowVars, partVars, rosterVars>>

\* Lines 389-392: format one report (the fourth through
\* processLastParticipation) and write its file.
WriteFile ==
    /\ pc = "write"
    /\ files' = files \cup {OutputFiles[Cardinality(files) + 1]}
    /\ pc' = IF Cardinality(files) + 1 = Len(OutputFiles) THEN "done" ELSE "write"
    /\ UNCHANGED <<fmtVars, aggVars, rowVars, partVars, rosterVars, urlState, promiseAll, texts, webSources, converted, log, settled>>

\* Lines 395-397: the rejection of processResults is caught and logged.
ProcessResultsCatch ==
    /\ pc = "thrown"
    /\ log' = Append(log, "Error processing results:")
    /\ pc' = "aborted"
    /\ UNCHANGED <<fmtVars, aggVars, rowVars, partVars, rosterVars, urlState, promiseAll, texts, webSources, converted, files, settled>>

\* The variables of formatMessage while the run is studied.
FormatIdle ==
    /\ map = <<>>
    /\ isMembersArray = FALSE
    /\ pos = 0
    /\ rank = 1
    /\ previousPoints = 0
    /\ tieCount = 0
    /\ formattedMessage = <<>>

\* Line 290: processResults has called fetchContent, whose urls.map has
\* started every callback.
InitRun ==
    /\ pc = "fetchContent"
    /\ PartIdle
    /\ FormatIdle
    /\ AggIdle
    /\ RowIdle
    /\ urlState = [i \in Pages |-> "fetching"]
    /\ promiseAll = "pending"
    /\ texts = [i \in Pages |-> ""]
    /\ settled = <<>>
    /\ webSources = <<>>
    /\ converted = 0
    /\ log = <<>>
    /\ files = {}

NextRun ==
    \/ \E i \in Pages : FetchError(i)
    \/ \E i \in Pages, ok \in BOOLEAN : FetchResponse(i, ok)
    \/ \E i \in Pages : ReadText(i)
    \/ \E i \in Pages : ReadError(i)
    \/ FetchContentReturn
    \/ FetchContentCatch
    \/ ExtractData
    \/ \E ok \in BOOLEAN : ConvertUrl(ok)
    \/ \E ok \in BOOLEAN : CountryStats(ok)
    \/ MemberStats
    \/ WriteFile
    \/ ProcessResultsCatch

SpecRun == InitRun /\ [][NextRun]_vars

(***************************************************************************)
(* Properties of the run.                                                  *)
(***************************************************************************)
SomeFetchFailed == \E i \in Pages : urlState[i] = "rejected"

\* C6: once the fetch of a page has failed the run only logs and aborts, and
\* no output file exists; an output file exists only after every fetch, every
\* table download and both aggregation passes have completed.
C6_NoOutputUnlessAllSucceeded ==
    /\ SomeFetchFailed =>
           /\ files = {}
           /\ pc \in {"fetchContent", "thrown", "aborted"}
    /\ files # {} =>
           /\ \A i \in Pages : urlState[i] = "fulfilled"
           /\ converted = Len(Urls)
           /\ pc \in {"write", "done"}
    /\ pc = "aborted" =>
           /\ files = {}
           /\ log # <<>>
           /\ log[Len(log)] = "Error processing results:"

\* C6 witness: one page was fetched, another failed, and the run has aborted
\* with both errors logged and nothing written.
C6_Witness ==
    /\ pc = "aborted"
    /\ \E i, j \in Pages : urlState[i] = "fulfilled" /\ urlState[j] = "rejected"
    /\ log = <<"Error fetching URLs:", "Error processing results:">>
    /\ files = {}

(***************************************************************************)
(* Strings the code parses, as sequences of one-character strings.         *)
(***************************************************************************)
\* The value of character c as a digit, 16 when it is none.
DigitValue(c) ==
    CASE c = "0" -> 0 [] c = "1" -> 1 [] c = "2" -> 2 [] c = "3" -> 3 [] c = "4" -> 4
      [] c = "5" -> 5 [] c = "6" -> 6 [] c = "7" -> 7 [] c = "8" -> 8 [] c = "9" -> 9
      [] c \in {"a", "A"} -> 10 [] c \in {"b", "B"} -> 11 [] c \in {"c", "C"} -> 12
      [] c \in {"d", "D"} -> 13 [] c \in {"e", "E"} -> 14 [] c \in {"f", "F"} -> 15
      [] OTHER -> 16

IsDigitIn(c, radix) == DigitValue(c) < radix

\* The regular expression class \d.
IsDigit(c) == IsDigitIn(c, 10)

RECURSIVE SkipSpaces(_, _)
\* The first position at or after i that holds no white space.
SkipSpaces(str, i) ==
    IF i <= Len(str) /\ str[i] = " " THEN SkipSpaces(str, i + 1) ELSE i

RECURSIVE DigitRunEnd(_, _, _)
\* The position after the run of radix digits that starts at i.
DigitRunEnd(str, i, radix) ==
    IF i <= Len(str) /\ IsDigitIn(str[i], radix)
    THEN DigitRunEnd(str, i + 1, radix)
    ELSE i

RECURSIVE DigitsValue(_, _, _, _)
\* The number written by the digits str[i], ..., str[j - 1].
DigitsValue(str, i, j, radix) ==
    IF j <= i THEN 0
    ELSE DigitsValue(str, i, j - 1, radix) * radix + DigitValue(str[j - 1])

\* parseInt(str) and parseInt(str, 10): white space, a sign, "0x" for radix
\* 16 when no radix is given, then the longest run of digits.  <<>> is NaN.
ParseIntRadix(str, given) ==
    LET i     == SkipSpaces(str, 1)
        neg   == i <= Len(str) /\ str[i] = "-"
        j     == IF i <= Len(str) /\ str[i] \in {"+", "-"} THEN i + 1 ELSE i
        hex   == /\ given \in {0, 16}
                 /\ j + 1 <= Len(str)
                 /\ str[j] = "0"
                 /\ str[j + 1] \in {"x", "X"}
        radix == IF hex THEN 16 ELSE IF given = 0 THEN 10 ELSE given
        k     == IF hex THEN j + 2 ELSE j
        e     == DigitRunEnd(str, k, radix)
    IN  IF e = k THEN <<>>
        ELSE <<(IF neg THEN -1 ELSE 1) * DigitsValue(str, k, e, radix)>>

ParseInt(str) == ParseIntRadix(str, 0)

\* Truthiness of a number: neither NaN nor 0.
TruthyNumber(n) == n # <<>> /\ n[1] # 0

\* extractEditionNumber with the pattern /\d/: the first digit alone.
ExtractFirstDigit(editionLabel) ==
    LET starts == { i \in 1..Len(editionLabel) : IsDigit(editionLabel[i]) }
    IN  IF starts = {} THEN <<>>
        ELSE LET i == CHOOSE a \in starts : \A b \in starts : a <= b
             IN  ParseIntRadix(SubSeq(editionLabel, i, i), 10)

\* extractEditionNumber (src/index.ts:185-188): the first match of /\d+/,
\* parsed in radix 10; <<>> is null.
ExtractEditionNumber(editionLabel) ==
    LET starts == { i \in 1..Len(editionLabel) : IsDigit(editionLabel[i]) }
    IN  IF starts = {} THEN <<>>
        ELSE LET i == CHOOSE a \in starts : \A b \in starts : a <= b
                 e == DigitRunEnd(editionLabel, i, 10)
                 match == SubSeq(editionLabel, i, e - 1)
             IN  ParseIntRadix(match, 10)

\* column.Points.match(/[^0-9.]/g): some character is neither digit nor dot.
MatchesNonNumeric(str) ==
    \E i \in 1..Len(str) : ~IsDigit(str[i]) /\ str[i] # "."

\* editionNumber <= (argv.edition ?? Infinity)
WithinCeiling(editionNumber, argv) ==
    argv = <<>> \/ editionNumber <= argv[1]

(***************************************************************************)
(* The row filter of the country pass (src/index.ts:314-322).              *)
(***************************************************************************)
CountryRowIncluded(col, argv) ==
    LET editionNumber == ExtractEditionNumber(col.Edition)
    IN  /\ editionNumber # <<>>
        /\ WithinCeiling(editionNumber[1], argv)
        /\ ~MatchesNonNumeric(col.Points)
        /\ TruthyNumber(ParseInt(col.Points))

\* Lines 327-330: what a row of filteredArray adds to totalPoints.
RowPoints(col) == ParseInt(col.Points)[1]

(***************************************************************************)
(* Inputs: the --edition flag, edition labels and Points fields.           *)
(***************************************************************************)
MaxArgvEdition == 2

MaxPointsLen == 3

\* yargs leaves argv.edition undefined without the flag (lines 21-25).
ArgvEditions == {<<>>} \cup { <<n>> : n \in 0..MaxArgvEdition }

EditionLabels ==
    { <<"E", "d", " ", "0">>, <<"E", "d", " ", "1">>, <<"E", "d", " ", "2">>,
      <<"E", "d", " ", "3">>, <<"b", "a", "d">>, <<>> }

PointsChars == {"0", "1", "5", ".", "x"}

PointsStrings == SeqsUpTo(PointsChars, MaxPointsLen)

\* One row of a country table is handed to the filter callback.
InitRow ==
    /\ pc = "filter"
    /\ PartIdle
    /\ FormatIdle
    /\ RunIdle
    /\ argvEdition \in ArgvEditions
    /\ countries = <<>>
    /\ members = <<>>
    /\ array = <<>>
    /\ index = 0
    /\ totalStats = <<>>
    /\ averageStats = <<>>
    /\ averagePlaces = <<>>
    /\ attributed = <<>>
    /\ column \in [Edition : EditionLabels, Points : PointsStrings]
    /\ included = <<>>

\* Lines 314-330 on one row: the filter callback, and the points the row
\* then adds to totalPoints and the count it adds to filteredArray.length.
FilterCountryRow ==
    /\ pc = "filter"
    /\ included' = IF CountryRowIncluded(column, argvEdition)
                   THEN [kept |-> TRUE, points |-> RowPoints(column), count |-> 1]
                   ELSE [kept |-> FALSE, points |-> 0, count |-> 0]
    /\ pc' = "filtered"
    /\ UNCHANGED <<fmtVars, runVars, aggVars, column, partVars, rosterVars>>

NextRow == FilterCountryRow

SpecRow == InitRow /\ [][NextRow]_vars

(***************************************************************************)
(* Properties of the country row filter.                                   *)
(***************************************************************************)

\* A pure non-negative integer string: one or more decimal digits.
IsPureInteger(str) == Len(str) >= 1 /\ \A i \in 1..Len(str) : IsDigit(str[i])

\* C7: a row is included if and only if its label yields an edition number
\* that is at most the ceiling (no ceiling without the flag), its Points
\* field is a pure non-negative integer string and that integer is not 0;
\* an included row contributes that integer, any other row nothing.
C7_RowIncludedIffPureInteger ==
    pc = "filtered" =>
        LET editionNumber == ExtractEditionNumber(column.Edition)
            wanted == /\ editionNumber # <<>>
                      /\ (argvEdition = <<>> \/ editionNumber[1] <= argvEdition[1])
                      /\ IsPureInteger(column.Points)
                      /\ DigitsValue(column.Points, 1, Len(column.Points) + 1, 10) # 0
        IN  /\ included.kept <=> wanted
            /\ included.kept =>
                   included.points = DigitsValue(column.Points, 1, Len(column.Points) + 1, 10)
            /\ ~included.kept => included.points = 0 /\ included.count = 0

(***************************************************************************)
(* The country pass of processResults (src/index.ts:313-341) and the sort  *)
(* of its maps (lines 384-385).  Averages are kept in tenths: the value    *)
(* Math.round(x * 10) / 10 is modelled by the integer Math.round(x * 10).  *)
(* Totals and counts are small integers, for which the double arithmetic   *)
(* of total / count * 10 is exact on every half.                           *)
(***************************************************************************)

\* Math.floor(num / den) for den > 0.
MathFloor(num, den) == num \div den

\* Math.round(num / den) for den > 0: the nearest integer, halves upward.
MathRound(num, den) == (2 * num + den) \div (2 * den)

RECURSIVE SumPoints(_)
\* Lines 327-330: totalPoints after the forEach over filteredArray.
SumPoints(filteredArray) ==
    IF filteredArray = <<>> THEN 0
    ELSE SumPoints(SubSeq(filteredArray, 1, Len(filteredArray) - 1))
             + RowPoints(filteredArray[Len(filteredArray)])

\* Line 332: averagePoints, in tenths; 0 / 0 is NaN.
AveragePoints(totalPoints, length) ==
    IF length = 0 THEN "NaN" ELSE MathRound(totalPoints * 10, length)

\* Lines 335 and 369 with every table attributed to the first roster entry.
NameAtFirst(roster, i) == IF roster # <<>> THEN roster[1][1] ELSE "Unknown"

\* Lines 335 and 369: roster[index]?.[0] ?? "Unknown", index counted from 0.
NameAt(roster, i) == IF i + 1 <= Len(roster) THEN roster[i + 1][1] ELSE "Unknown"

\* Line 370: roster[index]?.[1] ?? "Unknown".
FlagAt(roster, i) == IF i + 1 <= Len(roster) THEN roster[i + 1][2] ELSE "Unknown"

\* Map.prototype.set: a present key keeps its place, a new key goes last.
MapSet(m, key, value) ==
    IF IndexOf(Keys(m), key) = 0
    THEN Append(m, [name |-> key, value |-> value])
    ELSE [m EXCEPT ![IndexOf(Keys(m), key)] = [name |-> key, value |-> value]]

\* Line 337 with the test left out.
RecordedAlways(totalPoints) == TRUE

\* Line 337.
Recorded(totalPoints) == totalPoints # 0

\* Lines 314-322: filteredArray.
FilteredCountryRows(arr, argv) ==
    LET Keep(col) == CountryRowIncluded(col, argv)
    IN  SelectSeq(arr, Keep)

RECURSIVE IncludedPoints(_, _, _)
\* The points of the rows 1..n of arr that the filter keeps, row by row.
IncludedPoints(arr, argv, n) ==
    IF n = 0 THEN 0
    ELSE IncludedPoints(arr, argv, n - 1)
             + (IF CountryRowIncluded(arr[n], argv) THEN RowPoints(arr[n]) ELSE 0)

\* The number of rows of arr that the filter keeps.
IncludedCount(arr, argv) ==
    Cardinality({ i \in 1..Len(arr) : CountryRowIncluded(arr[i], argv) })

\* Lines 313-341: the forEach callback on table arr, the index-th table.
CountryStep(arr) ==
    /\ pc = "countryStats"
    /\ LET filteredArray == FilteredCountryRows(arr, argvEdition)
           totalPoints   == SumPoints(filteredArray)
           averagePoints == AveragePoints(totalPoints, Len(filteredArray))
           country       == NameAt(countries, index)
       IN  /\ totalStats' = IF Recorded(totalPoints)
                            THEN MapSet(totalStats, country, <<totalPoints>>)
                            ELSE totalStats
           /\ averageStats' = IF Recorded(totalPoints)
                              THEN MapSet(averageStats, country, <<averagePoints>>)
                              ELSE averageStats
           /\ attributed' = [attributed EXCEPT ![country] =
                                 [tables |-> @.tables + 1,
                                  points |-> @.points
                                      + IncludedPoints(arr, argvEdition, Len(arr))]]
    /\ array' = arr
    /\ index' = index + 1
    /\ UNCHANGED <<pc, fmtVars, runVars, rowVars, partVars, rosterVars, argvEdition, countries, members,
                   averagePlaces>>

\* a sorts before b under the comparators of lines 384-386.
SortsBefore(a, b, descending) ==
    IF descending THEN a.value[1] > b.value[1] ELSE a.value[1] < b.value[1]

\* One insertion of a stable sort: e goes after every entry it does not
\* sort before.
SortedInsert(sorted, e, descending) ==
    LET p == Cardinality({ i \in 1..Len(sorted) : ~SortsBefore(e, sorted[i], descending) })
    IN  SubSeq(sorted, 1, p) \o <<e>> \o SubSeq(sorted, p + 1, Len(sorted))

\* Lines 384-386 with the maps rebuilt in insertion order.
InsertionOrder(m, descending) == m

RECURSIVE SortEntries(_, _)
\* [...m.entries()].sort(comparator): Array.prototype.sort is stable.
SortEntries(m, descending) ==
    IF m = <<>> THEN <<>>
    ELSE SortedInsert(SortEntries(SubSeq(m, 1, Len(m) - 1), descending),
                      m[Len(m)], descending)

\* Lines 384-385: the two country maps are rebuilt in descending order.
SortCountryMaps ==
    /\ pc = "countryStats"
    /\ totalStats' = SortEntries(totalStats, TRUE)
    /\ averageStats' = SortEntries(averageStats, TRUE)
    /\ pc' = "sorted"
    /\ UNCHANGED <<fmtVars, runVars, rowVars, partVars, rosterVars, argvEdition, countries, members, array,
                   index, averagePlaces, attributed>>

(***************************************************************************)
(* Inputs of the country pass.                                             *)
(***************************************************************************)
MaxTables == 2

MaxRoster == 2

MaxDeepRows == 4

RosterNames == {"A", "B"}

Rosters == SeqsUpTo({ <<n, f>> : n \in RosterNames, f \in FlagNames }, MaxRoster)

CeilingChoices == { <<>>, <<1>> }

CountryRow(editionLabel, points) == [Edition |-> editionLabel, Points |-> points]

\* The tables of the pass over several tables: no row, a row that counts, a
\* row above the ceiling 1, a row with 0 points, a row of each edition.
ShortTables ==
    { <<>>,
      << CountryRow(<<"E", "d", " ", "1">>, <<"3">>) >>,
      << CountryRow(<<"E", "d", " ", "2">>, <<"1">>) >>,
      << CountryRow(<<"E", "d", " ", "1">>, <<"0">>) >>,
      << CountryRow(<<"E", "d", " ", "1">>, <<"1">>),
         CountryRow(<<"E", "d", " ", "2">>, <<"3">>) >> }

DeepRows ==
    [ Edition : { <<"E", "d", " ", "1">>, <<"E", "d", " ", "2">> },
      Points  : { <<"1">>, <<"2">>, <<"9", "8">> } ]

DeepTables == SeqsUpTo(DeepRows, MaxDeepRows)

NoPoints == [n \in RosterNames \cup {"Unknown"} |-> [tables |-> 0, points |-> 0]]

\* Lines 308-312: the state before the country forEach.
InitCountryPass(rosters) ==
    /\ pc = "countryStats"
    /\ PartIdle
    /\ FormatIdle
    /\ RunIdle
    /\ RowIdle
    /\ argvEdition \in CeilingChoices
    /\ countries \in rosters
    /\ members = <<>>
    /\ array = <<>>
    /\ index = 0
    /\ totalStats = <<>>
    /\ averageStats = <<>>
    /\ averagePlaces = <<>>
    /\ attributed = NoPoints

InitCountry == InitCountryPass(Rosters)

\* The forEach of line 313 visits the next table, if there is one.
NextCountry ==
    \/ /\ pc = "countryStats"
       /\ index < MaxTables
       /\ \E arr \in ShortTables : CountryStep(arr)
    \/ SortCountryMaps

SpecCountry == InitCountry /\ [][NextCountry]_vars

InitStats == InitCountryPass({ <<>>, << <<"A", "Italy">> >> })

NextStats ==
    /\ pc = "countryStats"
    /\ index = 0
    /\ \E arr \in DeepTables : CountryStep(arr)

SpecStats == InitStats /\ [][NextStats]_vars

(***************************************************************************)
(* Properties of the country pass.                                         *)
(***************************************************************************)
KeySet(m) == Range(Keys(m))

\* C8: the total map and the average map have the same keys, no total in
\* the map is 0, and a name whose tables' included rows sum to 0 (or have no
\* included row) is in neither map.
C8_SameKeysNoZeroTotal ==
    /\ KeySet(totalStats) = KeySet(averageStats)
    /\ \A i \in 1..Len(totalStats) : totalStats[i].value[1] # 0
    /\ \A n \in DOMAIN attributed :
           attributed[n].points = 0 =>
               n \notin KeySet(totalStats) /\ n \notin KeySet(averageStats)

\* C8 witness: two tables were processed for two countries; the rows of one
\* sum to 0 and it is in neither map, the other is in both.
C8_Witness ==
    /\ index = 2
    /\ array # <<>>
    /\ \E a, b \in RosterNames :
           /\ attributed[a].tables = 1 /\ attributed[a].points = 0
           /\ attributed[b].tables = 1 /\ attributed[b].points # 0
           /\ KeySet(totalStats) = {b}
           /\ KeySet(averageStats) = {b}

\* v is num / den (den > 0) rounded to the nearest integer, a half going
\* away from zero.
IsHalfAwayRounding(v, num, den) ==
    LET diff == den * v - num
        dist == IF diff < 0 THEN -diff ELSE diff
    IN  /\ 2 * dist <= den
        /\ 2 * dist = den => (IF num < 0 THEN v < 0 /\ diff < 0 ELSE diff > 0)

\* C9: for a country with a non-zero total, the total is the sum of the
\* integer points of the included rows, and the average (in tenths) is ten
\* times the total over the number of included rows, rounded to the nearest
\* integer with halves away from zero.
C9_TotalAndAverage ==
    index = 1 =>
        LET total   == IncludedPoints(array, argvEdition, Len(array))
            count   == IncludedCount(array, argvEdition)
            country == NameAt(countries, 0)
        IN  total # 0 =>
                /\ MapGet(totalStats, country) = << <<total>> >>
                /\ MapGet(averageStats, country) # <<>>
                /\ IsHalfAwayRounding(MapGet(averageStats, country)[1][1], total * 10, count)

\* C9 witness: three included rows with 98 + 2 + 1 = 101 points, reported
\* with the average 33.7.
C9_Witness ==
    /\ index = 1
    /\ IncludedCount(array, argvEdition) = 3
    /\ IncludedPoints(array, argvEdition, Len(array)) = 101
    /\ MapGet(totalStats, NameAt(countries, 0)) = << <<101>> >>
    /\ MapGet(averageStats, NameAt(countries, 0)) = << <<337>> >>

(***************************************************************************)
(* The member pass of processResults (src/index.ts:344-381).  A member row *)
(* has the fields Edition, "GF Place", "GF Points" and "SF Points", here   *)
(* GFPlace, GFPoints and SFPoints; average placements are kept in tenths.  *)
(***************************************************************************)
VETERAN_PARTICIPATIONS == 50

ESTABLISHED_PARTICIPATIONS == 25

MEMBERS_MINIMUM_PARTICIPATIONS == 5

\* Truthiness of a string field: it is not empty.
TruthyString(str) == str # <<>>

\* Lines 345-352: the filter callback of the member pass.
MemberRowIncluded(col, argv) ==
    LET editionNumber == ExtractEditionNumber(col.Edition)
    IN  /\ editionNumber # <<>>
        /\ WithinCeiling(editionNumber[1], argv)
        /\ (TruthyString(col.GFPoints) \/ TruthyString(col.SFPoints))

\* Lines 345-352: filteredArray.
FilteredMemberRows(arr, argv) ==
    LET Keep(col) == MemberRowIncluded(col, argv)
    IN  SelectSeq(arr, Keep)

\* Lines 359-360: the row has a place that is neither NaN nor 0.
PlaceCounted(col) == TruthyNumber(ParseInt(col.GFPlace))

RECURSIVE SumPlaces(_)
\* Lines 358-364: totalPlace after the forEach over filteredArray.
SumPlaces(filteredArray) ==
    IF filteredArray = <<>> THEN 0
    ELSE LET col == filteredArray[Len(filteredArray)]
         IN  SumPlaces(SubSeq(filteredArray, 1, Len(filteredArray) - 1))
                 + (IF PlaceCounted(col) THEN ParseInt(col.GFPlace)[1] ELSE 0)

\* Lines 358-364: count after the forEach over filteredArray.
CountPlaces(filteredArray) ==
    Cardinality({ i \in 1..Len(filteredArray) : PlaceCounted(filteredArray[i]) })

\* Line 366: averagePlace, in tenths; 0 / 0 is NaN.
AveragePlace(totalPlace, count) ==
    IF count = 0 THEN "NaN" ELSE MathRound(totalPlace * 10, count)

\* Line 378 with the threshold test left out.
MemberRecordedAnyCount(totalPlace, count) == totalPlace # 0

\* Line 378.
MemberRecorded(totalPlace, count) ==
    totalPlace # 0 /\ count >= MEMBERS_MINIMUM_PARTICIPATIONS

\* Lines 372-376: the notice for a member reaching a status.
Notices(countTotal, member) ==
    IF countTotal = VETERAN_PARTICIPATIONS THEN << <<"Veteran:", countTotal, member>> >>
    ELSE IF countTotal = ESTABLISHED_PARTICIPATIONS
         THEN << <<"Established:", countTotal, member>> >>
         ELSE <<>>

\* Lines 344-381: the forEach callback on table arr, the index-th table.
MemberStep(arr) ==
    /\ pc = "memberStats"
    /\ LET filteredArray == FilteredMemberRows(arr, argvEdition)
           totalPlace    == SumPlaces(filteredArray)
           count         == CountPlaces(filteredArray)
           averagePlace  == AveragePlace(totalPlace, count)
           member        == NameAt(members, index)
           flagName      == FlagAt(members, index)
       IN  /\ log' = log \o Notices(Len(arr), member)
           /\ averagePlaces' = IF MemberRecorded(totalPlace, count)
                               THEN MapSet(averagePlaces, member, <<averagePlace, flagName>>)
                               ELSE averagePlaces
    /\ array' = arr
    /\ index' = index + 1
    /\ UNCHANGED <<pc, fmtVars, rowVars, partVars, rosterVars, urlState, promiseAll, texts, webSources,
                   converted, files, argvEdition, countries, members, totalStats,
                   averageStats, attributed, settled>>

(***************************************************************************)
(* Inputs of the member pass.                                              *)
(***************************************************************************)
MaxMemberRows == 6

MemberRow(editionLabel, place, gfPoints, sfPoints) ==
    [Edition |-> editionLabel, GFPlace |-> place, GFPoints |-> gfPoints, SFPoints |-> sfPoints]

\* A grand final at place 1; a grand final of edition 2 with a signed place;
\* a semi-final only; a grand final with the place 0.
MemberRows ==
    { MemberRow(<<"E", "d", " ", "1">>, <<"1">>, <<"5">>, <<>>),
      MemberRow(<<"E", "d", " ", "2">>, <<"-", "4">>, <<"5">>, <<>>),
      MemberRow(<<"E", "d", " ", "1">>, <<>>, <<>>, <<"4">>),
      MemberRow(<<"E", "d", " ", "1">>, <<"0">>, <<"5">>, <<>>) }

MemberTables == SeqsUpTo(MemberRows, MaxMemberRows)

\* Lines 308-312 and 344: the state before the member forEach.
InitMembers ==
    /\ pc = "memberStats"
    /\ PartIdle
    /\ FormatIdle
    /\ RunIdle
    /\ RowIdle
    /\ argvEdition \in CeilingChoices
    /\ countries = <<>>
    /\ members \in { <<>>, << <<"M", "Italy">> >> }
    /\ array = <<>>
    /\ index = 0
    /\ totalStats = <<>>
    /\ averageStats = <<>>
    /\ averagePlaces = <<>>
    /\ attributed = NoPoints

NextMembers ==
    /\ pc = "memberStats"
    /\ index = 0
    /\ \E arr \in MemberTables : MemberStep(arr)

SpecMembers == InitMembers /\ [][NextMembers]_vars

(***************************************************************************)
(* Properties of the member pass.                                          *)
(***************************************************************************)

\* The rows of arr that the member filter keeps and for which Counts holds.
CountedRows(arr, argv, Counts(_)) ==
    { i \in 1..Len(arr) : MemberRowIncluded(arr[i], argv) /\ Counts(arr[i]) }

RECURSIVE PlaceSum(_, _)
\* The sum of the grand-final places of the rows rows of arr.
PlaceSum(arr, rows) ==
    IF rows = {} THEN 0
    ELSE LET i == CHOOSE r \in rows : TRUE
         IN  ParseInt(arr[i].GFPlace)[1] + PlaceSum(arr, rows \ {i})

\* v is num / den (den > 0) rounded to a nearest integer.
IsNearestInteger(v, num, den) ==
    LET diff == den * v - num
    IN  2 * (IF diff < 0 THEN -diff ELSE diff) <= den

\* The member of the one table is in averagePlaces exactly when the places
\* of the rows rows sum to a non-zero value and there are at least 5 of them,
\* and then with that sum over that count, rounded to one decimal.
RecordedFrom(rows) ==
    LET sum    == PlaceSum(array, rows)
        count  == Cardinality(rows)
        member == NameAt(members, 0)
        entry  == MapGet(averagePlaces, member)
    IN  /\ entry # <<>> <=> (sum # 0 /\ count >= 5)
        /\ entry # <<>> =>
               /\ IsNearestInteger(entry[1][1], sum * 10, count)
               /\ entry[1][2] = FlagAt(members, 0)
        /\ Len(averagePlaces) <= 1

HasNumber(col) == ParseInt(col.GFPlace) # <<>>

HasNonZeroNumber(col) == HasNumber(col) /\ ParseInt(col.GFPlace)[1] # 0

\* C10 as stated: the rows that count are the included rows whose grand-final
\* placement is numeric.
C10_RecordedFromNumericPlaces ==
    index = 1 => RecordedFrom(CountedRows(array, argvEdition, HasNumber))

\* C10 amended: the rows that count are the included rows whose grand-final
\* placement parses to a number other than 0; the member is recorded if and
\* only if their places sum to a non-zero value and they are at least 5, with
\* that sum over that count rounded to one decimal; a row with only a
\* semi-final result adds to neither.
C10_RecordedFromNonZeroPlaces ==
    index = 1 => RecordedFrom(CountedRows(array, argvEdition, HasNonZeroNumber))

\* C10 witness: five grand finals at place 1 and one semi-final only; the
\* member is recorded with the average 1.0 over five.
C10_Witness ==
    /\ index = 1
    /\ Len(array) = 6
    /\ Cardinality(CountedRows(array, argvEdition, HasNonZeroNumber)) = 5
    /\ \E i \in 1..Len(array) : array[i].GFPlace = <<>> /\ array[i].SFPoints # <<>>
    /\ MapGet(averagePlaces, "M") = << <<10, "Italy">> >>

(***************************************************************************)
(* processLastParticipation (src/index.ts:196-239) and                     *)
(* formatParticipationData (lines 247-265).  lastParticipation maps a name *)
(* to a number.  tablesCountries.indexOf(array) is the position of the     *)
(* table, the tables being distinct objects.  A line of the report is the  *)
(* record of its parts; the flag glyph is looked up from the name.         *)
(***************************************************************************)

RECURSIVE InferFromRows(_, _)
\* Lines 206-211: edition after the inner forEach over the rows of arr,
\* starting from e.
InferFromRows(arr, e) ==
    IF arr = <<>> THEN e
    ELSE LET before        == InferFromRows(SubSeq(arr, 1, Len(arr) - 1), e)
             editionNumber == ExtractEditionNumber(arr[Len(arr)].Edition)
         IN  IF TruthyNumber(editionNumber) /\ editionNumber[1] > before
             THEN editionNumber[1]
             ELSE before

RECURSIVE InferFromTables(_, _)
\* Lines 205-212: edition after the forEach over tables, starting from e.
InferFromTables(tables, e) ==
    IF tables = <<>> THEN e
    ELSE InferFromRows(tables[Len(tables)],
                       InferFromTables(SubSeq(tables, 1, Len(tables) - 1), e))

\* Line 204 with the flag tested for presence instead of truthiness.
FlagGivenIfDefined(argv) == argv # <<>>

\* Line 204: !argv.edition is false.
FlagGiven(argv) == TruthyNumber(argv)

\* Lines 201-213: edition when the country forEach begins.
ReferenceEdition(argv, tables) ==
    LET start == IF argv = <<>> THEN 0 ELSE argv[1]
    IN  IF FlagGiven(argv) THEN start ELSE InferFromTables(tables, start)

RECURSIVE LastInRows(_, _, _)
\* Lines 219-232 for a table whose selectedCountry is country: lastEdition
\* after the rows of arr, starting from last.
LastInRows(arr, e, last) ==
    IF arr = <<>> THEN last
    ELSE LET before        == LastInRows(SubSeq(arr, 1, Len(arr) - 1), e, last)
             editionNumber == ExtractEditionNumber(arr[Len(arr)].Edition)
         IN  IF /\ TruthyNumber(editionNumber)
                /\ editionNumber[1] <= e
                /\ editionNumber[1] > before
             THEN editionNumber[1]
             ELSE before

RECURSIVE LastEdition(_, _, _, _, _)
\* Lines 216-233: lastEdition of country after the first n tables.
LastEdition(country, roster, tables, e, n) ==
    IF n = 0 THEN 0
    ELSE LET before == LastEdition(country, roster, tables, e, n - 1)
         IN  IF NameAt(roster, n - 1) = country
             THEN LastInRows(tables[n], e, before)
             ELSE before

\* The comparator of lines 252-254 with the operands exchanged.
MissedSortsBeforeAscending(a, b, e) == (e - a.value) - (e - b.value) < 0

\* Lines 252-254: the comparator is negative, so a sorts before b.
MissedSortsBefore(a, b, e) == (e - b.value) - (e - a.value) < 0

\* One insertion of a stable sort by editions missed.
MissedInsert(sorted, entry, e) ==
    LET p == Cardinality({ i \in 1..Len(sorted) : ~MissedSortsBefore(entry, sorted[i], e) })
    IN  SubSeq(sorted, 1, p) \o <<entry>> \o SubSeq(sorted, p + 1, Len(sorted))

RECURSIVE SortByMissed(_, _)
\* Lines 251-255: sortedEntries.
SortByMissed(m, e) ==
    IF m = <<>> THEN <<>>
    ELSE MissedInsert(SortByMissed(SubSeq(m, 1, Len(m) - 1), e), m[Len(m)], e)

\* Line 261 with the suffix test left out.
SuffixAlways(editionsMissed) == <<editionsMissed>>

\* Line 261: the "(+N)" part, <<>> when it is the empty string.
Suffix(editionsMissed) == IF editionsMissed # 0 THEN <<editionsMissed>> ELSE <<>>

\* Lines 258-261: one line of the report.
ParticipationLine(entry, e) ==
    LET editionsMissed == e - entry.value
        isCurrent      == e = entry.value
    IN  [ flagKey     |-> entry.name,
          emphasis    |-> isCurrent,
          name        |-> entry.name,
          lastEdition |-> entry.value,
          suffix      |-> Suffix(editionsMissed) ]

\* Lines 200-213: the map is created and the reference edition settled.
InferEdition ==
    /\ pc = "processLastParticipation"
    /\ edition' = ReferenceEdition(argvEdition, tablesCountries)
    /\ lastParticipation' = <<>>
    /\ pc' = "countries.forEach"
    /\ UNCHANGED <<fmtVars, runVars, aggVars, rowVars, tablesCountries, visited,
                   sortedEntries, rosterVars>>

\* Lines 215-236: the forEach callback on the next roster entry.
CountryParticipation ==
    /\ pc = "countries.forEach"
    /\ visited < Len(countries)
    /\ LET country     == countries[visited + 1][1]
           lastEdition == LastEdition(country, countries, tablesCountries, edition,
                                      Len(tablesCountries))
       IN  lastParticipation' = MapSet(lastParticipation, country, lastEdition)
    /\ visited' = visited + 1
    /\ UNCHANGED <<pc, fmtVars, runVars, aggVars, rowVars, tablesCountries, edition,
                   sortedEntries, rosterVars>>

\* Lines 247-265: formatParticipationData on lastParticipation and edition.
FormatParticipationData ==
    /\ pc = "formatParticipationData"
    /\ sortedEntries' = SortByMissed(lastParticipation, edition)
    /\ formattedMessage' = [i \in 1..Len(lastParticipation) |->
                               ParticipationLine(sortedEntries'[i], edition)]
    /\ pc' = "participationDone"
    /\ UNCHANGED <<map, isMembersArray, pos, rank, previousPoints, tieCount, runVars,
                   aggVars, rowVars, tablesCountries, edition, lastParticipation,
                   visited, rosterVars>>

\* Line 238: the forEach is over and formatParticipationData is called.
CallFormatParticipationData ==
    /\ pc = "countries.forEach"
    /\ visited = Len(countries)
    /\ pc' = "formatParticipationData"
    /\ UNCHANGED <<fmtVars, runVars, aggVars, rowVars, partVars, rosterVars>>

(***************************************************************************)
(* Inputs of processLastParticipation.                                     *)
(***************************************************************************)
Label(str) == CASE str = "Ed 0" -> <<"E", "d", " ", "0">>
                [] str = "Ed 1" -> <<"E", "d", " ", "1">>
                [] str = "Ed 2" -> <<"E", "d", " ", "2">>
                [] str = "bad" -> <<"b", "a", "d">>
                [] str = "Edition 10" -> <<"E", "d", "i", "t", "i", "o", "n", " ", "1", "0">>
                [] str = "Edition 7" -> <<"E", "d", "i", "t", "i", "o", "n", " ", "7">>
                [] str = "bad label" -> <<"b", "a", "d", " ", "l", "a", "b", "e", "l">>

EditionRow(str) == CountryRow(Label(str), <<"1">>)

\* No row; edition 1; editions 2 and 1; edition 0 and no edition; the
\* editions 10 and 7 and no edition.
ParticipationTables ==
    { <<>>,
      << EditionRow("Ed 1") >>,
      << EditionRow("Ed 2"), EditionRow("Ed 1") >>,
      << EditionRow("Ed 0"), EditionRow("bad") >>,
      << EditionRow("Edition 10"), EditionRow("Edition 7"), EditionRow("bad label") >> }

\* Rosters: distinct names, one name twice, and the name "Unknown".
ParticipationRosters ==
    { <<>>,
      << <<"A", "Italy">> >>,
      << <<"A", "Italy">>, <<"B", "Italy">> >>,
      << <<"B", "Italy">>, <<"A", "Italy">> >>,
      << <<"A", "Italy">>, <<"A", "France">> >>,
      << <<"Unknown", "Italy">> >>,
      << <<"A", "Italy">>, <<"Unknown", "Italy">> >> }

\* Line 392: processLastParticipation(countries, tablesCountries) is called.
InitParticipation ==
    /\ pc = "processLastParticipation"
    /\ FormatIdle
    /\ RunIdle
    /\ RowIdle
    /\ argvEdition \in ArgvEditions
    /\ countries \in ParticipationRosters
    /\ members = <<>>
    /\ array = <<>>
    /\ index = 0
    /\ totalStats = <<>>
    /\ averageStats = <<>>
    /\ averagePlaces = <<>>
    /\ attributed = <<>>
    /\ tablesCountries \in SeqsUpTo(ParticipationTables, MaxTables)
    /\ edition = 0
    /\ lastParticipation = <<>>
    /\ visited = 0
    /\ sortedEntries = <<>>
    /\ extracted = <<>>
    /\ uniqueExtracted = <<>>

NextParticipation ==
    \/ InferEdition
    \/ CountryParticipation
    \/ CallFormatParticipationData
    \/ FormatParticipationData

SpecParticipation == InitParticipation /\ [][NextParticipation]_vars

(***************************************************************************)
(* Properties of processLastParticipation.                                 *)
(***************************************************************************)

\* The edition numbers of the rows of table arr that are at most e.
EditionsUpTo(arr, e) ==
    { n \in { ExtractEditionNumber(arr[r].Edition) : r \in 1..Len(arr) } \ {<<>>} :
          n[1] <= e }

\* The largest edition number of the rows of arr that is at most e, or 0.
LargestEditionUpTo(arr, e) ==
    IF EditionsUpTo(arr, e) = {} THEN 0
    ELSE (CHOOSE n \in EditionsUpTo(arr, e) : \A o \in EditionsUpTo(arr, e) : o[1] <= n[1])[1]

\* The history rows of the roster entry i: the table at its position.
OwnTable(i) == IF i <= Len(tablesCountries) THEN tablesCountries[i] ELSE <<>>

\* The lines of the report are, one for one, the entries of the roster, each
\* with the largest edition of its own table and the editions missed.
OneLinePerEntity ==
    /\ Len(formattedMessage) = Len(countries)
    /\ \E f \in [1..Len(countries) -> 1..Len(formattedMessage)] :
           /\ \A i, j \in 1..Len(countries) : f[i] = f[j] => i = j
           /\ \A i \in 1..Len(countries) :
                  LET line == formattedMessage[f[i]]
                      last == LargestEditionUpTo(OwnTable(i), edition)
                  IN  /\ line.name = countries[i][1]
                      /\ line.lastEdition = last
                      /\ line.suffix # <<>> => line.suffix[1] = edition - last

\* C11: the report has exactly one line for every roster entity, whose last
\* edition is the largest edition number among the entity's own history rows
\* that is at most the reference edition, or 0, and whose editions-missed
\* value is the reference edition minus that last edition.
C11_OneRecordPerEntity ==
    pc = "participationDone" => OneLinePerEntity

\* The rows of all tables of tablesCountries.
AllRows == UNION { Range(tablesCountries[t]) : t \in 1..Len(tablesCountries) }

\* The edition numbers found over all rows.
AllEditions == { ExtractEditionNumber(col.Edition) : col \in AllRows } \ {<<>>}

\* The largest edition number found over all rows, 0 when there is none.
MaximumEdition ==
    IF AllEditions = {} THEN 0
    ELSE (CHOOSE n \in AllEditions : \A o \in AllEditions : o[1] <= n[1])[1]

\* C12: the reference edition is the value of the flag whenever the flag is
\* supplied and the maximum edition number over all country rows when it is
\* absent; the row filter of the aggregator admits an edition number exactly
\* up to the same flag value and every edition number when the flag is absent.
C12_ReferenceIsFlagOrMaximum ==
    pc \in {"countries.forEach", "formatParticipationData", "participationDone"} =>
        /\ argvEdition # <<>> => edition = argvEdition[1]
        /\ argvEdition = <<>> => edition = MaximumEdition
        /\ \A n \in AllEditions :
               WithinCeiling(n[1], argvEdition)
                   <=> (argvEdition = <<>> \/ n[1] <= argvEdition[1])

(***************************************************************************)
(* Inputs of extractData.                                                  *)
(***************************************************************************)
MaxExtracted == 3

\* A name with two flags, a lower-case name and a name with a diacritic.
ExtractedPairs ==
    { <<"A", "Italy">>, <<"A", "France">>, <<"b", "Italy">>, <<"E-acute", "Italy">> }

MemberPages == { <<>>, << <<"M", "Italy">> >> }

\* Lines 291-294: extractData(webSources) and the two concatenated rosters.
ExtractRosters ==
    /\ pc = "extractData(webSources)"
    /\ \E countriesA \in SortOutcomes(RemoveDuplicates(extracted[1])),
          countriesB \in SortOutcomes(RemoveDuplicates(extracted[2])),
          membersA \in SortOutcomes(RemoveDuplicates(extracted[3])),
          membersB \in SortOutcomes(RemoveDuplicates(extracted[4])) :
           /\ uniqueExtracted' = <<countriesA, countriesB, membersA, membersB>>
           /\ countries' = countriesA \o countriesB
           /\ members' = membersA \o membersB
    /\ pc' = "rosters"
    /\ UNCHANGED <<fmtVars, runVars, rowVars, partVars, extracted, argvEdition, array,
                   index, totalStats, averageStats, averagePlaces, attributed>>

\* Line 290 has returned the four web sources.
InitRoster ==
    /\ pc = "extractData(webSources)"
    /\ FormatIdle
    /\ RunIdle
    /\ RowIdle
    /\ AggIdle
    /\ tablesCountries = <<>>
    /\ edition = 0
    /\ lastParticipation = <<>>
    /\ visited = 0
    /\ sortedEntries = <<>>
    /\ \E a \in SeqsUpTo(ExtractedPairs, MaxExtracted), b \in SeqsUpTo(ExtractedPairs, 1),
          c, d \in MemberPages :
           extracted = <<a, b, c, d>>
    /\ uniqueExtracted = <<>>

NextRoster == ExtractRosters

SpecRoster == InitRoster /\ [][NextRoster]_vars

(***************************************************************************)
(* Properties of the rosters.                                              *)
(***************************************************************************)
UniqueNames(roster) ==
    \A i, j \in 1..Len(roster) : roster[i][1] = roster[j][1] => i = j

\* C13: the roster extractData returns for each page, and the two rosters
\* concatenated from them, hold each display name at most once.
C13_RosterNamesUnique ==
    pc = "rosters" =>
        /\ \A i \in Pages : UniqueNames(uniqueExtracted[i])
        /\ UniqueNames(countries)
        /\ UniqueNames(members)

(***************************************************************************)
(* extractEditionNumber on bounded labels: processLastParticipation is run *)
(* without the flag on one table of one row, or on the table of the three  *)
(* labels "Edition 10", "Edition 7" and "bad label".                       *)
(***************************************************************************)
MaxLabelLen == 3

LabelChars == {"E", " ", "0", "1", "7"}

ScenarioTable ==
    << EditionRow("Edition 10"), EditionRow("Edition 7"), EditionRow("bad label") >>

EditionTables ==
    { << CountryRow(label, <<"1">>) >> : label \in SeqsUpTo(LabelChars, MaxLabelLen) }
        \cup { ScenarioTable }

InitEdition ==
    /\ pc = "processLastParticipation"
    /\ FormatIdle
    /\ RunIdle
    /\ RowIdle
    /\ argvEdition = <<>>
    /\ countries = << <<"A", "Italy">> >>
    /\ members = <<>>
    /\ array = <<>>
    /\ index = 0
    /\ totalStats = <<>>
    /\ averageStats = <<>>
    /\ averagePlaces = <<>>
    /\ attributed = <<>>
    /\ \E table \in EditionTables : tablesCountries = << table >>
    /\ edition = 0
    /\ lastParticipation = <<>>
    /\ visited = 0
    /\ sortedEntries = <<>>
    /\ extracted = <<>>
    /\ uniqueExtracted = <<>>

SpecEdition == InitEdition /\ [][NextParticipation]_vars

DecimalDigits == <<"0", "1", "2", "3", "4", "5", "6", "7", "8", "9">>

RECURSIVE Power(_, _)
Power(b, n) == IF n = 0 THEN 1 ELSE b * Power(b, n - 1)

\* label[i..j] is the first maximal run of decimal digits of label.
IsFirstRun(label, i, j) ==
    /\ \A k \in 1..(i - 1) : label[k] \notin Range(DecimalDigits)
    /\ \A k \in i..j : label[k] \in Range(DecimalDigits)
    /\ j = Len(label) \/ label[j + 1] \notin Range(DecimalDigits)

\* The integer that the decimal digits label[i..j] write.
RunValue(label, i, j) ==
    LET RECURSIVE Sum(_)
        Sum(k) == IF k > j THEN 0
                  ELSE (IndexOf(DecimalDigits, label[k]) - 1) * Power(10, j - k) + Sum(k + 1)
    IN  Sum(i)

\* n is what the contract of extractEditionNumber asks for label.
IsFirstEmbeddedInteger(label, n) ==
    IF \A k \in 1..Len(label) : label[k] \notin Range(DecimalDigits)
    THEN n = <<>>
    ELSE \E i, j \in 1..Len(label) :
             i <= j /\ IsFirstRun(label, i, j) /\ n = << RunValue(label, i, j) >>

\* C14: extractEditionNumber returns the integer value of the first maximal
\* run of decimal digits of the label, and null exactly when the label holds
\* no digit; for "Edition 10", "Edition 7" and "bad label" it returns 10, 7
\* and null, and the maximum edition inferred over them is 10.
C14_FirstEmbeddedInteger ==
    /\ \A col \in AllRows :
           IsFirstEmbeddedInteger(col.Edition, ExtractEditionNumber(col.Edition))
    /\ tablesCountries = << ScenarioTable >> =>
           /\ ExtractEditionNumber(ScenarioTable[1].Edition) = <<10>>
           /\ ExtractEditionNumber(ScenarioTable[2].Edition) = <<7>>
           /\ ExtractEditionNumber(ScenarioTable[3].Edition) = <<>>
           /\ pc # "processLastParticipation" => edition = 10

\* C14 witness: the run over the three labels of the scenario has inferred
\* the edition 10 and reported it as the last edition of the entity.
C14_Witness ==
    /\ pc = "participationDone"
    /\ tablesCountries = << ScenarioTable >>
    /\ edition = 10
    /\ formattedMessage[1].lastEdition = 10

(***************************************************************************)
(* The sort of the three maps (src/index.ts:384-386) on maps as the two    *)
(* passes can leave them: totals are positive, averages are not negative,  *)
(* the country maps have the same keys in the same order, and a placement  *)
(* average may be any number.                                              *)
(***************************************************************************)
MaxSorted == 3

SortNames == {"A", "B", "C", "D"}

\* Lines 338-339: the entries the country pass sets for one name.
CountryEntryPairs ==
    { <<[name |-> n, value |-> <<t>>], [name |-> n, value |-> <<a>>]>> :
          n \in SortNames, t \in {1, 2}, a \in {0, 5} }

\* Line 379: the maps the member pass can leave.
PlacementMaps ==
    { m \in SeqsUpTo([name : {"M", "N"}, value : { <<0, "Italy">>, <<5, "Italy">> }], 2) :
          Injective(Keys(m)) }

\* Lines 384-386: the three maps are rebuilt in sorted order.
SortMaps ==
    /\ pc = "sortMaps"
    /\ totalStats' = SortEntries(totalStats, TRUE)
    /\ averageStats' = SortEntries(averageStats, TRUE)
    /\ averagePlaces' = SortEntries(averagePlaces, FALSE)
    /\ pc' = "sortedMaps"
    /\ UNCHANGED <<fmtVars, runVars, rowVars, partVars, rosterVars, argvEdition,
                   countries, members, array, index, attributed>>

\* Line 381: both passes are over.
InitSort ==
    /\ pc = "sortMaps"
    /\ FormatIdle
    /\ RunIdle
    /\ RowIdle
    /\ PartIdle
    /\ argvEdition = <<>>
    /\ countries = <<>>
    /\ members = <<>>
    /\ array = <<>>
    /\ index = 0
    /\ attributed = <<>>
    /\ \E pairs \in SeqsUpTo(CountryEntryPairs, MaxSorted) :
           /\ Injective([i \in 1..Len(pairs) |-> pairs[i][1].name])
           /\ totalStats = [i \in 1..Len(pairs) |-> pairs[i][1]]
           /\ averageStats = [i \in 1..Len(pairs) |-> pairs[i][2]]
    /\ averagePlaces \in PlacementMaps

NextSort == SortMaps

SpecSort == InitSort /\ [][NextSort]_vars

\* The entities of m with one score are adjacent: they form one tie-block.
EqualScoresAdjacent(m) ==
    \A i, k \in 1..Len(m) :
        (i < k /\ m[i].value[1] = m[k].value[1]) =>
            \A j \in i..k : m[j].value[1] = m[i].value[1]

\* C15: the maps handed to formatMessage are ordered by their primary
\* metric, the total and the average map in non-increasing order of score
\* and the placement-average map in non-decreasing order, so that the
\* entities with one score are adjacent.
C15_MapsOrdered ==
    pc = "sortedMaps" =>
        /\ \A i \in 1..(Len(totalStats) - 1) :
               totalStats[i].value[1] >= totalStats[i + 1].value[1]
        /\ \A i \in 1..(Len(averageStats) - 1) :
               averageStats[i].value[1] >= averageStats[i + 1].value[1]
        /\ \A i \in 1..(Len(averagePlaces) - 1) :
               averagePlaces[i].value[1] <= averagePlaces[i + 1].value[1]
        /\ EqualScoresAdjacent(totalStats)
        /\ EqualScoresAdjacent(averageStats)
        /\ EqualScoresAdjacent(averagePlaces)

\* C15 witness: three countries, two of them with one total, and two members
\* with different averages have been sorted; the keys of the average map are
\* no longer in the order of the total map.
C15_Witness ==
    /\ pc = "sortedMaps"
    /\ Len(totalStats) = 3
    /\ totalStats[1].value[1] = 2 /\ totalStats[2].value[1] = 2 /\ totalStats[3].value[1] = 1
    /\ Keys(averageStats) # Keys(totalStats)
    /\ Len(averagePlaces) = 2
    /\ averagePlaces[1].value[1] < averagePlaces[2].value[1]

(***************************************************************************)
(* formatParticipationData (src/index.ts:247-265) on maps as               *)
(* processLastParticipation can build them: a last edition is 0 or an      *)
(* edition number that is at most the reference edition.                   *)
(***************************************************************************)
MaxReference == 2

ReportNames == {"A", "B", "C"}

ParticipationMaps(e) ==
    { m \in SeqsUpTo([name : ReportNames, value : 0..e], Cardinality(ReportNames)) :
          Injective(Keys(m)) }

\* Line 238: formatParticipationData(lastParticipation, edition) is called.
InitReport ==
    /\ pc = "formatParticipationData"
    /\ FormatIdle
    /\ RunIdle
    /\ RowIdle
    /\ AggIdle
    /\ tablesCountries = <<>>
    /\ edition \in 0..MaxReference
    /\ lastParticipation \in ParticipationMaps(edition)
    /\ visited = 0
    /\ sortedEntries = <<>>
    /\ extracted = <<>>
    /\ uniqueExtracted = <<>>

NextReport == FormatParticipationData

SpecReport == InitReport /\ [][NextReport]_vars

C17_SuffixOrEmphasis ==
    pc = "participationDone" =>
        \A i \in 1..Len(formattedMessage) :
            LET line == formattedMessage[i]
                N    == edition - line.lastEdition
            IN  /\ line.suffix # <<>> <=> N # 0
                /\ line.suffix # <<>> => line.suffix = <<N>>
                /\ line.emphasis <=> line.lastEdition = edition
                /\ line.suffix = <<>> <=> line.emphasis

\* C17 witness: a report with an entity of the reference edition, emphasised
\* and without suffix, and an entity that missed two editions.
C17_Witness ==
    /\ pc = "participationDone"
    /\ edition = 2
    /\ \E i, j \in 1..Len(formattedMessage) :
           /\ formattedMessage[i].emphasis /\ formattedMessage[i].suffix = <<>>
           /\ ~formattedMessage[j].emphasis /\ formattedMessage[j].suffix = <<2>>

(***************************************************************************)
(* Properties of the order of the fetched pages.                           *)
(***************************************************************************)

\* The names of a roster.
RosterNamesOf(roster) == [i \in 1..Len(roster) |-> roster[i][1]]

\* C18: whatever the order in which the four fetches complete, fetchContent
\* returns the page texts in the order of the URL list, and the country
\* roster is built from the two country pages and the member roster from the
\* two member pages.
C18_TextsInUrlOrder ==
    /\ pc \notin {"fetchContent", "thrown", "aborted"} => webSources = Urls
    /\ pc \notin {"fetchContent", "thrown", "aborted", "extractData"} =>
           /\ RosterNamesOf(countries) = <<"COUNTRIES_A", "COUNTRIES_B">>
           /\ RosterNamesOf(members) = <<"MEMBERS_A", "MEMBERS_B">>

\* C18 witness: the fetches completed in the reverse of the URL order, and
\* the rosters have been built.
C18_Witness ==
    /\ pc = "convertUrl"
    /\ settled = <<4, 3, 2, 1>>
    /\ webSources = Urls
    /\ RosterNamesOf(countries) = <<"COUNTRIES_A", "COUNTRIES_B">>

(***************************************************************************)
(* The country pass and processLastParticipation on one roster and one     *)
(* list of tables (src/index.ts:313-341 and 196-239); there is no member   *)
(* table, and the files are not written.                                   *)
(***************************************************************************)

\* Lines 313-341: the forEach callback on the next table of tablesCountries.
CountryTableStep ==
    /\ pc = "countryStats"
    /\ index < Len(tablesCountries)
    /\ CountryStep(tablesCountries[index + 1])

\* Lines 344-392: the member forEach finds no table, the maps are sorted and
\* processLastParticipation is called.
SortAndCallParticipation ==
    /\ pc = "countryStats"
    /\ index = Len(tablesCountries)
    /\ totalStats' = SortEntries(totalStats, TRUE)
    /\ averageStats' = SortEntries(averageStats, TRUE)
    /\ averagePlaces' = SortEntries(averagePlaces, FALSE)
    /\ pc' = "processLastParticipation"
    /\ UNCHANGED <<fmtVars, runVars, rowVars, partVars, rosterVars, argvEdition,
                   countries, members, array, index, attributed>>

InitAttribution ==
    /\ pc = "countryStats"
    /\ FormatIdle
    /\ RunIdle
    /\ RowIdle
    /\ argvEdition \in CeilingChoices
    /\ countries \in ParticipationRosters
    /\ members = <<>>
    /\ array = <<>>
    /\ index = 0
    /\ totalStats = <<>>
    /\ averageStats = <<>>
    /\ averagePlaces = <<>>
    /\ attributed = NoPoints
    /\ tablesCountries \in SeqsUpTo(ShortTables, MaxTables)
    /\ edition = 0
    /\ lastParticipation = <<>>
    /\ visited = 0
    /\ sortedEntries = <<>>
    /\ extracted = <<>>
    /\ uniqueExtracted = <<>>

NextAttribution ==
    \/ CountryTableStep
    \/ SortAndCallParticipation
    \/ InferEdition
    \/ CountryParticipation
    \/ CallFormatParticipationData
    \/ FormatParticipationData

SpecAttribution == InitAttribution /\ [][NextAttribution]_vars

\* The total, the average and the last edition reported for the roster entry
\* i are those of the table at position i alone.
ReportedFromOwnTable(i) ==
    LET own   == tablesCountries[i]
        name  == countries[i][1]
        total == IncludedPoints(own, argvEdition, Len(own))
        count == IncludedCount(own, argvEdition)
    IN  /\ total # 0 =>
               /\ MapGet(totalStats, name) = << <<total>> >>
               /\ MapGet(averageStats, name) = << <<MathRound(total * 10, count)>> >>
        /\ total = 0 => MapGet(totalStats, name) = <<>> /\ MapGet(averageStats, name) = <<>>
        /\ \E l \in 1..Len(formattedMessage) :
               /\ formattedMessage[l].name = name
               /\ formattedMessage[l].lastEdition = LargestEditionUpTo(own, edition)

\* The positions of the tables that have no roster entry.
SurplusTables == (Len(countries) + 1)..Len(tablesCountries)

\* The tables without a roster entry go by the one name "Unknown": no other
\* name is added to the maps, and when the roster does not hold that name
\* its entry is the total of the last such table with a total other than 0.
SurplusIsUnknown ==
    LET counted == { t \in SurplusTables :
                         IncludedPoints(tablesCountries[t], argvEdition,
                                        Len(tablesCountries[t])) # 0 }
    IN  /\ KeySet(totalStats) \subseteq Range(RosterNamesOf(countries)) \cup {"Unknown"}
        /\ KeySet(averageStats) = KeySet(totalStats)
        /\ "Unknown" \notin Range(RosterNamesOf(countries)) =>
               IF counted = {} THEN MapGet(totalStats, "Unknown") = <<>>
               ELSE LET t == CHOOSE x \in counted : \A y \in counted : y <= x
                    IN  MapGet(totalStats, "Unknown") =
                            << <<IncludedPoints(tablesCountries[t], argvEdition,
                                                Len(tablesCountries[t]))>> >>

\* C19: table i is attributed to roster entry i.  With as many tables as
\* roster entries and unique names, the total, the average and the last
\* edition reported for an entity come from its own table only; the tables
\* without a roster entry are all attributed to "Unknown", of which at most
\* one table's totals are in the maps.
C19_AttributedByPosition ==
    pc = "participationDone" =>
        /\ (Len(tablesCountries) = Len(countries) /\ UniqueNames(countries)) =>
               \A i \in 1..Len(countries) : ReportedFromOwnTable(i)
        /\ SurplusIsUnknown

\* C19 witness: two countries with a table each, both with points and with
\* different last editions, have been reported.
C19_Witness ==
    /\ pc = "participationDone"
    /\ Len(countries) = 2 /\ Len(tablesCountries) = 2
    /\ UniqueNames(countries)
    /\ Len(totalStats) = 2
    /\ totalStats[1].value # totalStats[2].value
    /\ formattedMessage[1].lastEdition # formattedMessage[2].lastEdition

====
